---------------------------- MODULE Spec2Model ----------------------------
(***************************************************************************)
(* LiveVerify popup: the capture/permission controller (WebcamPreview),    *)
(* the upload form (UploadForm), the App callbacks that capture a frame or *)
(* read a file and call the analysis backend, the treatment ResultCard     *)
(* gives a result, and the environment they talk to (relay tab,            *)
(* getUserMedia, the video element, the 10 s metadata timer, the backend). *)
(*                                                                         *)
(* JavaScript runs one task at a time: an action below is one task plus    *)
(* the promise continuations (microtasks) it triggers, up to the next      *)
(* await on something the environment has to answer.                       *)
(***************************************************************************)
EXTENDS Integers, Sequences, FiniteSets, TLC

\* Number of startCamera invocations explored (the stream a successful
\* getUserMedia call of invocation a returns is named a).
MaxAttempts == 2
\* Number of handleWebcamAnalysis invocations explored.
MaxAnalyses == 1
\* Number of handleFileUpload invocations explored.
MaxUploads == 1

Attempts == 1..MaxAttempts
Analyses == 1..MaxAnalyses
Uploads == 1..MaxUploads

VARIABLES
  env,                \* what the page offers: isExtension, chrome.tabs, getUserMedia
  mounted,            \* WebcamPreview is mounted (videoRef.current/canvasRef.current set)
  isCameraActive,     \* useState, part_001:50
  cameraError,        \* useState, part_001:51 (<<>> is null)
  isRequestingCamera, \* useState, part_001:52
  permissionStatus,   \* useState, part_001:53
  streamRef,          \* useRef, part_001:54 (0 is null)
  srcObject,          \* videoRef.current.srcObject (0 is null)
  liveStreams,        \* acquired streams whose tracks have not been stopped
  status,             \* App's status line, part_000:11
  isAnalyzing,        \* App's useState, part_000:10
  result,             \* App's useState, part_000:9
  attempts,           \* the startCamera invocations and where each one is
  analyses,           \* the handleWebcamAnalysis invocations
  selectedFile,       \* UploadForm's useState, part_002:9 (a file is selected)
  uploads             \* the handleFileUpload invocations

vars == <<env, mounted, isCameraActive, cameraError, isRequestingCamera,
          permissionStatus, streamRef, srcObject, liveStreams, status,
          isAnalyzing, result, attempts, analyses, selectedFile, uploads>>

-----------------------------------------------------------------------------
\* Texts of the program.

NoError == <<>>
PermissionHint == " Click \"Open Permission Page\" below to grant access."
RelayFailedMessage ==
  "Permission request failed. Please try opening the permission page manually."
NotSupportedMessage == "Camera API not supported in this browser"
VideoFailedMessage == "Video loading failed"
VideoTimeoutMessage == "Video loading timeout"

\* new Error(message): its name is "Error".
NewError(message) == [name |-> "Error", message |-> message]
\* A DOMException the browser rejects getUserMedia() or play() with.
DOMException(name) == [name |-> name, message |-> "dom"]
NoException == [name |-> "", message |-> ""]

GetUserMediaErrors ==
  {"NotAllowedError", "NotFoundError", "NotReadableError",
   "OverconstrainedError", "SecurityError", "AbortError", "TypeError"}
PlayErrors == {"NotAllowedError", "AbortError"}

\* error.message.includes('Permission request failed')
IncludesPermissionRequestFailed(message) == message = RelayFailedMessage

\* The switch of the catch block: the message shown for an error.
ErrorMessage(e) ==
  CASE e.name = "NotAllowedError" ->
         "Camera permission denied. Please allow camera access."
    [] e.name = "NotFoundError" -> "No camera found on this device"
    [] e.name = "NotReadableError" ->
         "Camera is already in use by another application"
    [] e.name = "OverconstrainedError" ->
         "Camera does not support the required settings"
    [] e.name = "SecurityError" ->
         "Camera access blocked due to security restrictions"
    [] e.name = "AbortError" -> "Camera access was cancelled"
    [] OTHER -> e.message

\* showPermissionButton of the catch block.
ShowPermissionButton(e) ==
  \/ e.name \in {"NotAllowedError", "SecurityError"}
  \/ /\ e.name \notin {"NotFoundError", "NotReadableError",
                       "OverconstrainedError", "AbortError"}
     /\ IncludesPermissionRequestFailed(e.message)

-----------------------------------------------------------------------------
\* React state of WebcamPreview plus the status line it writes through
\* onStatusUpdate, as one record, so that a handler can be followed through
\* its assignments and committed at the end of the task.

Cur ==
  [isCameraActive |-> isCameraActive, cameraError |-> cameraError,
   isRequestingCamera |-> isRequestingCamera,
   permissionStatus |-> permissionStatus, status |-> status]

\* A state setter called after the component was unmounted changes nothing.
Commit(r) ==
  /\ isCameraActive' = IF mounted THEN r.isCameraActive ELSE isCameraActive
  /\ cameraError' = IF mounted THEN r.cameraError ELSE cameraError
  /\ isRequestingCamera' =
       IF mounted THEN r.isRequestingCamera ELSE isRequestingCamera
  /\ permissionStatus' =
       IF mounted THEN r.permissionStatus ELSE permissionStatus
  /\ status' = IF mounted THEN r.status ELSE status

\* startCamera's first four statements.
startCamera_begin(r) ==
  [r EXCEPT !.isRequestingCamera = TRUE,
            !.status = <<"Checking camera permission...">>,
            !.cameraError = NoError,
            !.permissionStatus = "requesting"]

\* startCamera's catch block followed by its finally block, on error e.
startCamera_catch(r, e) ==
  [r EXCEPT
     !.permissionStatus = IF e.name = "NotAllowedError" THEN "denied" ELSE @,
     !.cameraError =
        IF ShowPermissionButton(e) /\ env.isExtension
          THEN <<ErrorMessage(e), PermissionHint>>
          ELSE <<ErrorMessage(e)>>,
     !.status = <<ErrorMessage(e)>>,
     !.isCameraActive = FALSE,
     !.isRequestingCamera = FALSE]

\* The success branch (play() resolved) followed by the finally block.
startCamera_ready(r) ==
  [r EXCEPT !.isCameraActive = TRUE,
            !.permissionStatus = "granted",
            !.status = <<"Camera ready - Click \"Scan Frame\" to analyze">>,
            !.isRequestingCamera = FALSE]

\* The finally block alone: the try block ended without doing anything more
\* because videoRef.current was null.
startCamera_finally(r) == [r EXCEPT !.isRequestingCamera = FALSE]

-----------------------------------------------------------------------------
\* One startCamera invocation.
\*   pc      where it is suspended: "new" (not invoked), "checkTabs" and
\*           "checkMsg" (inside checkPermissionStatus), "reqTabs" and "reqMsg"
\*           (inside requestPermissionViaContentScript), "gum", "wait",
\*           "play", "done"
\*   trace   the steps it has taken, in order
\*   hasPermission, permissionGranted   the two locals ("unset", "yes", "no")
\*   gum     its getUserMedia call: "none", "pending", "resolved", "rejected"
\*   timer   its setTimeout of 10 s: "none", "armed", "fired"
\*   outcome "none", "active" (reached the success branch), "failed" (the
\*           catch block ran), "skipped" (the try block ended without either)
\*   error   what the catch block caught

NewAttempt ==
  [pc |-> "new", trace |-> <<>>, hasPermission |-> "unset",
   permissionGranted |-> "unset", gum |-> "none", timer |-> "none",
   outcome |-> "none", error |-> NoException]

InFlight(a) == attempts[a].pc \notin {"new", "done"}

controllerVars == <<isCameraActive, cameraError, isRequestingCamera,
                    permissionStatus, status>>
streamVars == <<streamRef, srcObject, liveStreams>>
uploadVars == <<selectedFile, uploads>>
appVars == <<isAnalyzing, result, analyses, uploadVars>>

\* The record of an invocation is kept until the next one starts; after
\* that only its position is kept.  Its timer, if still armed, is no longer
\* followed: all it can do is call reject on a promise that is settled and
\* remove listeners that are its own.
Forget(rec) ==
  IF rec.pc = "done" THEN [NewAttempt EXCEPT !.pc = "done"] ELSE rec

\* Invocation a moves on to rec, and the React state to r.
Step(a, rec, r) ==
  /\ attempts' = [b \in Attempts |->
                    IF b = a THEN rec
                    ELSE IF attempts[a].pc = "new" THEN Forget(attempts[b])
                    ELSE attempts[b]]
  /\ Commit(r)

\* The attempt throws e: catch, finally, return.
Fail(a, rec, r, e) ==
  Step(a, [rec EXCEPT !.pc = "done", !.outcome = "failed", !.error = e],
       startCamera_catch(r, e))

\* Variant: the wait is set up without its timer.
MetadataTimer_NotStarted == "none"

\* Timer state right after the metadata wait was set up (setTimeout, 10 s).
MetadataTimer == "armed"

\* "Accessing camera..." and the getUserMedia call.
CallGetUserMedia(a, rec, r) ==
  Step(a, [rec EXCEPT !.pc = "gum", !.gum = "pending",
                      !.trace = Append(@, "getUserMedia")],
       [r EXCEPT !.status = <<"Accessing camera...">>])

\* "Requesting camera permission via content script..." and the call of
\* requestPermissionViaContentScript, which returns false at once when
\* chrome.tabs is missing.
CallRequestPermission(a, rec, r) ==
  LET rec1 == [rec EXCEPT !.trace = Append(@, "request")]
      r1 == [r EXCEPT
               !.status =
                  <<"Requesting camera permission via content script...">>]
  IN IF env.isExtension /\ env.tabs
       THEN Step(a, [rec1 EXCEPT !.pc = "reqTabs"], r1)
       ELSE Fail(a, [rec1 EXCEPT !.permissionGranted = "no"],
                 [r1 EXCEPT !.permissionStatus = "denied"],
                 NewError(RelayFailedMessage))

\* Variant: the button is not disabled while a request is running.
StartCameraControl_NotDisabled == mounted /\ ~isCameraActive

\* The Start Camera button: rendered when the camera is not active, disabled
\* while a request is running.
StartCameraControl == mounted /\ ~isCameraActive /\ ~isRequestingCamera

NextAttempt == Cardinality({a \in Attempts : attempts[a].pc # "new"}) + 1

\* A click on Start Camera: startCamera up to its first real suspension.
StartCamera(a) ==
  /\ StartCameraControl
  /\ a = NextAttempt
  /\ a \in Attempts
  /\ LET r == startCamera_begin(Cur)
         rec == attempts[a]
     IN IF ~env.getUserMedia
          THEN Fail(a, rec, r, NewError(NotSupportedMessage))
          ELSE IF env.isExtension
            THEN LET rec1 == [rec EXCEPT !.trace = Append(@, "check")]
                 IN IF env.tabs
                      THEN Step(a, [rec1 EXCEPT !.pc = "checkTabs"], r)
                      ELSE CallRequestPermission(
                             a, [rec1 EXCEPT !.hasPermission = "no"], r)
            ELSE CallGetUserMedia(a, rec, r)
  /\ UNCHANGED <<env, mounted, streamVars, appVars>>

-----------------------------------------------------------------------------
\* The relay (chrome.tabs.query, then chrome.tabs.sendMessage to the tab).

\* chrome.tabs.query: an active tab with an id, no such tab, or a rejection.
TabsOutcomes == {"tab", "noTab", "throws"}

\* chrome.tabs.sendMessage: a rejection (no receiver), no response
\* (undefined), or a response object carrying the flag asked for.
MessageOutcomes ==
  {[threw |-> TRUE, defined |-> FALSE, flag |-> FALSE],
   [threw |-> FALSE, defined |-> FALSE, flag |-> FALSE],
   [threw |-> FALSE, defined |-> TRUE, flag |-> FALSE],
   [threw |-> FALSE, defined |-> TRUE, flag |-> TRUE]}

\* response?.granted || false, response?.success || false; false from the
\* catch block when sendMessage rejected.
RelayFlag(m) == ~m.threw /\ m.defined /\ m.flag

\* if (!hasPermission), part_001:128
NeedsRequest(hasPermission) == ~hasPermission

\* Variant: a refused permission request does not stop the attempt.
PermissionRefused_Ignored(permissionGranted) == FALSE

\* if (!permissionGranted), part_001:132
PermissionRefused(permissionGranted) == ~permissionGranted

\* checkPermissionStatus returned: hasPermission is known.
AfterCheck(a, rec, hasPermission) ==
  LET rec1 == [rec EXCEPT !.hasPermission =
                             IF hasPermission THEN "yes" ELSE "no"]
  IN IF NeedsRequest(hasPermission)
       THEN CallRequestPermission(a, rec1, Cur)
       ELSE CallGetUserMedia(a, rec1, Cur)

\* requestPermissionViaContentScript returned: permissionGranted is known.
AfterRequest(a, rec, permissionGranted) ==
  LET rec1 == [rec EXCEPT !.permissionGranted =
                             IF permissionGranted THEN "yes" ELSE "no"]
  IN IF PermissionRefused(permissionGranted)
       THEN Fail(a, rec1, [Cur EXCEPT !.permissionStatus = "denied"],
                 NewError(RelayFailedMessage))
       ELSE CallGetUserMedia(a, rec1, Cur)

\* checkPermissionStatus: chrome.tabs.query settled.
CheckTabsReturns(a, t) ==
  /\ attempts[a].pc = "checkTabs"
  /\ IF t = "tab"
       THEN Step(a, [attempts[a] EXCEPT !.pc = "checkMsg",
                                        !.trace = Append(@, "query")], Cur)
       ELSE AfterCheck(a, attempts[a], FALSE)
  /\ UNCHANGED <<env, mounted, streamVars, appVars>>

\* checkPermissionStatus: the checkCameraPermission message settled.
CheckMessageReturns(a, m) ==
  /\ attempts[a].pc = "checkMsg"
  /\ AfterCheck(a, attempts[a], RelayFlag(m))
  /\ UNCHANGED <<env, mounted, streamVars, appVars>>

\* requestPermissionViaContentScript: chrome.tabs.query settled.
RequestTabsReturns(a, t) ==
  /\ attempts[a].pc = "reqTabs"
  /\ IF t = "tab"
       THEN Step(a, [attempts[a] EXCEPT !.pc = "reqMsg",
                                        !.trace = Append(@, "requestMessage")],
                 Cur)
       ELSE AfterRequest(a, attempts[a], FALSE)
  /\ UNCHANGED <<env, mounted, streamVars, appVars>>

\* requestPermissionViaContentScript: the requestCameraPermission message
\* settled.
RequestMessageReturns(a, m) ==
  /\ attempts[a].pc = "reqMsg"
  /\ AfterRequest(a, attempts[a], RelayFlag(m))
  /\ UNCHANGED <<env, mounted, streamVars, appVars>>

-----------------------------------------------------------------------------
\* Device acquisition, bind, metadata wait, play.

\* getUserMedia resolved with a stream (named a).  With the video element
\* there, the stream is bound and the metadata wait is set up: listeners
\* added and the timer started.  The executor's own test of videoRef.current
\* (part_001:159) runs in the same task as the test at line 153 and cannot
\* fail.  Without the element, the try block ends there.
GetUserMediaResolves(a) ==
  /\ attempts[a].pc = "gum"
  /\ liveStreams' = liveStreams \cup {a}
  /\ IF mounted
       THEN /\ srcObject' = a
            /\ streamRef' = a
            /\ Step(a, [attempts[a] EXCEPT
                          !.pc = "wait", !.gum = "resolved",
                          !.timer = MetadataTimer,
                          !.trace = @ \o <<"bind", "wait">>], Cur)
       ELSE /\ UNCHANGED <<srcObject, streamRef>>
            /\ Step(a, [attempts[a] EXCEPT
                          !.pc = "done", !.gum = "resolved",
                          !.outcome = "skipped"], startCamera_finally(Cur))
  /\ UNCHANGED <<env, mounted, appVars>>

GetUserMediaRejects(a, name) ==
  /\ attempts[a].pc = "gum"
  /\ Fail(a, [attempts[a] EXCEPT !.gum = "rejected"], Cur, DOMException(name))
  /\ UNCHANGED <<env, mounted, streamVars, appVars>>

\* 'loadedmetadata' on the video element: the wait resolves; play() is
\* called if the element is still there.
LoadedMetadata(a) ==
  /\ attempts[a].pc = "wait"
  /\ srcObject # 0
  /\ IF mounted
       THEN Step(a, [attempts[a] EXCEPT !.pc = "play",
                                        !.trace = Append(@, "play")], Cur)
       ELSE Step(a, [attempts[a] EXCEPT !.pc = "done",
                                        !.outcome = "skipped"],
                 startCamera_finally(Cur))
  /\ UNCHANGED <<env, mounted, streamVars, appVars>>

\* 'error' on the video element: the wait rejects.
VideoError(a) ==
  /\ attempts[a].pc = "wait"
  /\ Fail(a, attempts[a], Cur, NewError(VideoFailedMessage))
  /\ UNCHANGED <<env, mounted, streamVars, appVars>>

\* The 10 s timer fires: it removes the listeners and calls reject, which
\* does nothing on a promise that is already settled.
TimerFires(a) ==
  /\ attempts[a].timer = "armed"
  /\ IF attempts[a].pc = "wait"
       THEN Fail(a, [attempts[a] EXCEPT !.timer = "fired"], Cur,
                 NewError(VideoTimeoutMessage))
       ELSE Step(a, [attempts[a] EXCEPT !.timer = "fired"], Cur)
  /\ UNCHANGED <<env, mounted, streamVars, appVars>>

\* play() resolves only while the element has a source: clearing srcObject
\* aborts a pending play().
PlayResolves(a) ==
  /\ attempts[a].pc = "play"
  /\ srcObject # 0
  /\ Step(a, [attempts[a] EXCEPT !.pc = "done", !.outcome = "active"],
          startCamera_ready(Cur))
  /\ UNCHANGED <<env, mounted, streamVars, appVars>>

PlayRejects(a, name) ==
  /\ attempts[a].pc = "play"
  /\ Fail(a, attempts[a], Cur, DOMException(name))
  /\ UNCHANGED <<env, mounted, streamVars, appVars>>

-----------------------------------------------------------------------------
\* stopCamera, teardown, permission updates.

\* Variant: stopCamera forgets to reset the permission state.
stopCamera_state_KeepsPermission(r) ==
  [r EXCEPT !.isCameraActive = FALSE,
            !.cameraError = NoError,
            !.status = <<"Camera stopped">>]

\* Variant: stopCamera reports an error when no camera was running.
stopCamera_state_ComplainsWhenIdle(r) ==
  [r EXCEPT !.isCameraActive = FALSE,
            !.cameraError = IF r.isCameraActive
                              THEN NoError
                              ELSE <<"Camera is not running">>,
            !.permissionStatus = "unknown",
            !.status = <<"Camera stopped">>]

\* The four state updates at the end of stopCamera.
stopCamera_state(r) ==
  [r EXCEPT !.isCameraActive = FALSE,
            !.cameraError = NoError,
            !.permissionStatus = "unknown",
            !.status = <<"Camera stopped">>]

\* The tracks stopCamera stops: those of the stream in streamRef, if any.
stopCamera_tracks == IF streamRef # 0 THEN {streamRef} ELSE {}

stopCamera ==
  /\ liveStreams' = liveStreams \ stopCamera_tracks
  /\ streamRef' = 0
  /\ srcObject' = IF mounted THEN 0 ELSE srcObject
  /\ Commit(stopCamera_state(Cur))
  /\ UNCHANGED <<env, mounted, attempts, appVars>>

\* The Open Permission Page button, rendered inside the error alert.
OpenPermissionPageControl ==
  mounted /\ cameraError # NoError /\ permissionStatus = "denied"
    /\ env.isExtension

\* The Stop Camera button, rendered while the camera is active.
StopCameraControl == mounted /\ isCameraActive

StopCamera == StopCameraControl /\ stopCamera

\* The cleanup of the unmount effect: the tracks of the stream in streamRef
\* are stopped; the ref is left as it is.  React clears videoRef.current and
\* discards the state of WebcamPreview and App: nothing reads or renders it
\* any more, and the state variables stand at their initial values from
\* then on (Commit changes nothing once unmounted).
Unmount ==
  /\ mounted
  /\ mounted' = FALSE
  /\ liveStreams' = liveStreams \ (IF streamRef # 0 THEN {streamRef} ELSE {})
  /\ isCameraActive' = FALSE
  /\ cameraError' = NoError
  /\ isRequestingCamera' = FALSE
  /\ permissionStatus' = "unknown"
  /\ status' = <<"Ready to start camera">>
  /\ isAnalyzing' = FALSE
  /\ result' = <<>>
  /\ selectedFile' = FALSE
  /\ UNCHANGED <<env, streamRef, srcObject, attempts, analyses, uploads>>

\* message.error of a cameraPermissionUpdate ("" when absent).
UpdateErrors == {"", "Permission dismissed"}

\* Variant: a granted update clears the error whatever the state was.
handleMessage_AlwaysClears(r, granted, error) ==
  IF granted
    THEN [r EXCEPT !.permissionStatus = "granted", !.cameraError = NoError]
    ELSE [r EXCEPT
            !.permissionStatus = "denied",
            !.cameraError = IF error # "" THEN <<error>>
                                          ELSE <<"Camera permission denied">>]

PermissionGrantedPrompt ==
  "Camera permission granted! Click \"Start Camera\" to continue."

\* handleMessage on {action: 'cameraPermissionUpdate', granted, error}.  The
\* listener is re-registered whenever permissionStatus changes, so it reads
\* the current value.
handleMessage(r, granted, error) ==
  IF granted
    THEN IF r.permissionStatus = "denied"
           THEN [r EXCEPT
                   !.permissionStatus = "granted",
                   !.cameraError = NoError,
                   !.status = <<PermissionGrantedPrompt>>]
           ELSE [r EXCEPT !.permissionStatus = "granted"]
    ELSE [r EXCEPT
            !.permissionStatus = "denied",
            !.cameraError = IF error # "" THEN <<error>>
                                          ELSE <<"Camera permission denied">>]

PermissionUpdate(granted, error) ==
  /\ mounted
  /\ env.isExtension
  /\ Commit(handleMessage(Cur, granted, error))
  /\ UNCHANGED <<env, mounted, streamVars, attempts, appVars>>

-----------------------------------------------------------------------------
\* The analysis service client (utils/api.ts) and App's webcam callback.

NoInfo == <<>>

\* Labels are sequences of characters.
Real == <<"R", "e", "a", "l">>
Fake == <<"F", "a", "k", "e">>
Suspicious == <<"S", "u", "s", "p", "i", "c", "i", "o", "u", "s">>

\* What fetch and response.json() deliver: net is FALSE when fetch itself
\* rejects; ok and code are response.ok and response.status; the rest is the
\* JSON body (hasMessage tells whether it has a message).
BackendResponses ==
  {[net |-> TRUE, ok |-> FALSE, code |-> "500", success |-> TRUE,
    label |-> Real, confidence |-> 99, timestamp |-> "T",
    hasMessage |-> FALSE, message |-> "",
    image_info |-> NoInfo, media_info |-> NoInfo],
   [net |-> TRUE, ok |-> TRUE, code |-> "200", success |-> FALSE,
    label |-> <<>>, confidence |-> 0, timestamp |-> "",
    hasMessage |-> TRUE, message |-> "bad image",
    image_info |-> NoInfo, media_info |-> NoInfo],
   [net |-> TRUE, ok |-> TRUE, code |-> "200", success |-> TRUE,
    label |-> Fake, confidence |-> 87, timestamp |-> "T",
    hasMessage |-> FALSE, message |-> "",
    image_info |-> <<"JPEG">>, media_info |-> <<"image">>]}

Threw(message) == [threw |-> TRUE, message |-> message, value |-> <<>>]
Returned(value) == [threw |-> FALSE, message |-> <<>>, value |-> <<value>>]

\* data.message || default
MessageOr(resp, default) ==
  IF resp.hasMessage /\ resp.message # "" THEN <<resp.message>>
                                           ELSE <<default>>

\* Variant: the body is examined before the status.
analyzeImage_BodyFirst(resp) ==
  IF ~resp.net THEN Threw(<<"Failed to fetch">>)
  ELSE IF ~resp.success THEN Threw(MessageOr(resp, "Analysis failed"))
  ELSE IF ~resp.ok THEN Threw(<<"Backend error: ", resp.code>>)
  ELSE Returned([success |-> resp.success, label |-> resp.label,
                 confidence |-> resp.confidence,
                 timestamp |-> resp.timestamp,
                 image_info |-> resp.image_info])

analyzeImage(resp) ==
  IF ~resp.net THEN Threw(<<"Failed to fetch">>)
  ELSE IF ~resp.ok THEN Threw(<<"Backend error: ", resp.code>>)
  ELSE IF ~resp.success THEN Threw(MessageOr(resp, "Analysis failed"))
  ELSE Returned([success |-> resp.success, label |-> resp.label,
                 confidence |-> resp.confidence,
                 timestamp |-> resp.timestamp,
                 image_info |-> resp.image_info])

\* Variant: verifyMedia passes on the image info as well.
verifyMedia_KeepsImageInfo(resp) ==
  IF ~resp.net THEN Threw(<<"Failed to fetch">>)
  ELSE IF ~resp.ok THEN Threw(<<"Backend error: ", resp.code>>)
  ELSE IF ~resp.success THEN Threw(MessageOr(resp, "Verification failed"))
  ELSE Returned([success |-> resp.success, label |-> resp.label,
                 confidence |-> resp.confidence,
                 timestamp |-> resp.timestamp,
                 image_info |-> resp.image_info,
                 media_info |-> resp.media_info])

\* verifyMedia differs in its default message and in the info it passes on.
verifyMedia(resp) ==
  IF ~resp.net THEN Threw(<<"Failed to fetch">>)
  ELSE IF ~resp.ok THEN Threw(<<"Backend error: ", resp.code>>)
  ELSE IF ~resp.success THEN Threw(MessageOr(resp, "Verification failed"))
  ELSE Returned([success |-> resp.success, label |-> resp.label,
                 confidence |-> resp.confidence,
                 timestamp |-> resp.timestamp,
                 media_info |-> resp.media_info])

\* One handleWebcamAnalysis invocation.
\*   pc         "new", "fetch" (awaiting analyzeImage), "done"
\*   requests   the fetch calls it has made
\*   viaControl invoked by a click on Scan Frame
\*   captured   a frame was drawn and encoded
\*   active, streamLive   at the capture: isCameraActive, and whether the
\*              video element showed a stream with running tracks
\*   outcome    "none", "rejected" (returned at the guard), "ok", "failed"
NewAnalysis ==
  [pc |-> "new", requests |-> 0, viaControl |-> FALSE, captured |-> FALSE,
   active |-> FALSE, streamLive |-> FALSE, outcome |-> "none"]

NextAnalysis == Cardinality({n \in Analyses : analyses[n].pc # "new"}) + 1

\* The record of an invocation is kept until the next one starts; after
\* that only its position is kept.
ForgetAnalysis(rec) ==
  IF rec.pc = "done" THEN [NewAnalysis EXCEPT !.pc = "done"] ELSE rec

\* Invocation n starts as rec.
StartAnalysis(n, rec) ==
  analyses' = [m \in Analyses |->
                 IF m = n THEN rec ELSE ForgetAnalysis(analyses[m])]

\* if (!videoRef.current || !canvasRef.current || isAnalyzing) return
handleWebcamAnalysis_returns == ~mounted \/ isAnalyzing

\* handleWebcamAnalysis up to the await of analyzeImage.
handleWebcamAnalysis(n, viaControl) ==
  /\ n = NextAnalysis
  /\ n \in Analyses
  /\ IF handleWebcamAnalysis_returns
       THEN /\ StartAnalysis(n,
                 [analyses[n] EXCEPT !.pc = "done", !.viaControl = viaControl,
                                     !.outcome = "rejected"])
            /\ UNCHANGED <<isAnalyzing, status>>
       ELSE /\ StartAnalysis(n,
                 [analyses[n] EXCEPT
                    !.pc = "fetch", !.requests = @ + 1,
                    !.viaControl = viaControl,
                    !.captured = TRUE, !.active = isCameraActive,
                    !.streamLive = (srcObject \in liveStreams)])
            /\ isAnalyzing' = TRUE
            /\ status' = <<"Analyzing image for deepfakes...">>
  /\ UNCHANGED <<env, mounted, isCameraActive, cameraError,
                 isRequestingCamera, permissionStatus, streamVars, result,
                 attempts, uploadVars>>

\* Variant: the button is rendered whether or not the camera is active.
ScanFrameControl_AlwaysRendered == mounted /\ ~isAnalyzing

\* The Scan Frame button: rendered while the camera is active, disabled
\* while an analysis is running.
ScanFrameControl == mounted /\ isCameraActive /\ ~isAnalyzing

ScanFrame(n) == ScanFrameControl /\ handleWebcamAnalysis(n, TRUE)

\* Variant: isAnalyzing is reset at the end of the try block only.
setIsAnalyzing_finally_OnSuccessOnly(threw) == threw

\* finally { setIsAnalyzing(false) }: the value set, whether or not the try
\* block threw.
setIsAnalyzing_finally(threw) == FALSE

\* Variant: a call that failed is made once more.
AfterAwait_Retries(rec, out) ==
  IF out.threw /\ rec.requests < 2
    THEN [rec EXCEPT !.requests = @ + 1]
    ELSE [rec EXCEPT !.pc = "done",
                     !.outcome = IF out.threw THEN "failed" ELSE "ok"]

\* Where an invocation is once its awaited call has settled with out: past
\* setResult or past the catch block, and past the finally block.
AfterAwait(rec, out) ==
  [rec EXCEPT !.pc = "done",
              !.outcome = IF out.threw THEN "failed" ELSE "ok"]

\* Variant: the catch block clears the displayed result.
setResult_try_ClearsOnFailure(out, cur) ==
  IF out.threw THEN <<>> ELSE out.value

\* The result state once the awaited call has settled with out: setResult is
\* the statement after the await in the try block, and the catch block has
\* no setResult.
setResult_try(out, cur) ==
  IF out.threw THEN cur ELSE out.value

\* Variant: an analysis started while the camera was active marks the camera
\* active again when its call settles.
AnalysisSettles_Reactivates(n, resp) ==
  /\ analyses[n].pc = "fetch"
  /\ LET out == analyzeImage(resp)
     IN /\ analyses' = [analyses EXCEPT ![n] = AfterAwait(@, out)]
        /\ result' = IF mounted THEN setResult_try(out, result) ELSE result
        /\ status' = IF ~mounted THEN status
                     ELSE IF out.threw
                       THEN <<"Analysis failed: ">> \o out.message
                       ELSE <<"Analysis complete">>
        /\ isAnalyzing' = IF mounted THEN setIsAnalyzing_finally(out.threw)
                                     ELSE isAnalyzing
  /\ isCameraActive' = IF mounted THEN analyses[n].active ELSE isCameraActive
  /\ UNCHANGED <<env, mounted, cameraError, isRequestingCamera,
                 permissionStatus, streamVars, attempts, uploadVars>>

\* analyzeImage settled: setResult and "Analysis complete", or the catch
\* block; then the finally block.
AnalysisSettles(n, resp) ==
  /\ analyses[n].pc = "fetch"
  /\ LET out == analyzeImage(resp)
     IN /\ analyses' = [analyses EXCEPT ![n] = AfterAwait(@, out)]
        /\ result' = IF mounted THEN setResult_try(out, result) ELSE result
        /\ status' = IF ~mounted THEN status
                     ELSE IF out.threw
                       THEN <<"Analysis failed: ">> \o out.message
                       ELSE <<"Analysis complete">>
        /\ isAnalyzing' = IF mounted THEN setIsAnalyzing_finally(out.threw)
                                     ELSE isAnalyzing
  /\ UNCHANGED <<env, mounted, isCameraActive, cameraError,
                 isRequestingCamera, permissionStatus, streamVars, attempts,
                 uploadVars>>

-----------------------------------------------------------------------------
\* UploadForm and App's upload callback.

\* One handleFileUpload invocation.
\*   pc         "new", "read" (awaiting the FileReader), "fetch" (awaiting
\*              verifyMedia), "done"
\*   requests   the fetch calls it has made
\*   outcome    "none", "ok", "failed"
NewUpload == [pc |-> "new", requests |-> 0, outcome |-> "none"]

NextUpload == Cardinality({u \in Uploads : uploads[u].pc # "new"}) + 1

ForgetUpload(rec) ==
  IF rec.pc = "done" THEN [NewUpload EXCEPT !.pc = "done"] ELSE rec

\* handleFileSelect with a file chosen.
SelectFile ==
  /\ mounted
  /\ ~selectedFile
  /\ selectedFile' = TRUE
  /\ UNCHANGED <<env, mounted, controllerVars, streamVars, attempts,
                 isAnalyzing, result, analyses, uploads>>

\* clearFile (its button is rendered while a file is selected), or
\* handleFileSelect with no file chosen.
ClearFile ==
  /\ mounted
  /\ selectedFile
  /\ selectedFile' = FALSE
  /\ UNCHANGED <<env, mounted, controllerVars, streamVars, attempts,
                 isAnalyzing, result, analyses, uploads>>

\* Variant: the upload is started whether or not a call is running.
UploadControl_NotDisabled == mounted /\ selectedFile

\* The Verify Media button (disabled={!selectedFile || isProcessing}) and
\* the guard of handleUpload.
UploadControl == mounted /\ selectedFile /\ ~isAnalyzing

\* handleFileUpload up to the await of the FileReader.
handleFileUpload(u) ==
  /\ u = NextUpload
  /\ u \in Uploads
  /\ uploads' = [v \in Uploads |->
                   IF v = u THEN [uploads[u] EXCEPT !.pc = "read"]
                   ELSE ForgetUpload(uploads[v])]
  /\ isAnalyzing' = TRUE
  /\ status' = <<"Processing file...">>
  /\ UNCHANGED <<env, mounted, isCameraActive, cameraError,
                 isRequestingCamera, permissionStatus, streamVars, result,
                 attempts, analyses, selectedFile>>

\* A click on Verify Media.
VerifyMedia(u) == UploadControl /\ handleFileUpload(u)

\* The FileReader finished: onload, then "Analyzing media for deepfakes..."
\* and the call of verifyMedia; or onerror, the catch block and the finally
\* block.
FileRead(u, ok) ==
  /\ uploads[u].pc = "read"
  /\ IF ok
       THEN /\ uploads' = [uploads EXCEPT ![u] =
                             [@ EXCEPT !.pc = "fetch", !.requests = @ + 1]]
            /\ status' = IF mounted
                           THEN <<"Analyzing media for deepfakes...">>
                           ELSE status
            /\ UNCHANGED isAnalyzing
       ELSE /\ uploads' = [uploads EXCEPT ![u] =
                             [@ EXCEPT !.pc = "done", !.outcome = "failed"]]
            /\ status' = IF mounted
                           THEN <<"Upload failed: ", "Failed to read file">>
                           ELSE status
            /\ isAnalyzing' = IF mounted THEN setIsAnalyzing_finally(TRUE)
                                         ELSE isAnalyzing
  /\ UNCHANGED <<env, mounted, isCameraActive, cameraError,
                 isRequestingCamera, permissionStatus, streamVars, result,
                 attempts, analyses, selectedFile>>

\* verifyMedia settled: setResult and "Analysis complete", or the catch
\* block; then the finally block.
VerificationSettles(u, resp) ==
  /\ uploads[u].pc = "fetch"
  /\ LET out == verifyMedia(resp)
     IN /\ uploads' = [uploads EXCEPT ![u] = AfterAwait(@, out)]
        /\ result' = IF mounted THEN setResult_try(out, result) ELSE result
        /\ status' = IF ~mounted THEN status
                     ELSE IF out.threw
                       THEN <<"Upload failed: ">> \o out.message
                       ELSE <<"Analysis complete">>
        /\ isAnalyzing' = IF mounted THEN setIsAnalyzing_finally(out.threw)
                                     ELSE isAnalyzing
  /\ UNCHANGED <<env, mounted, isCameraActive, cameraError,
                 isRequestingCamera, permissionStatus, streamVars, attempts,
                 analyses, selectedFile>>

-----------------------------------------------------------------------------
\* ResultCard: the display treatment of a result.

UpperCase == <<"A", "C", "E", "F", "I", "K", "L", "N", "O", "P", "R", "S", "U">>
LowerCase == <<"a", "c", "e", "f", "i", "k", "l", "n", "o", "p", "r", "s", "u">>

\* Variant: letters are left as they are.
toLowerCaseChar_Identity(c) == c

\* One character of String.prototype.toLowerCase, for the letters above.
toLowerCaseChar(c) ==
  IF \E i \in DOMAIN UpperCase : UpperCase[i] = c
    THEN LowerCase[CHOOSE i \in DOMAIN UpperCase : UpperCase[i] = c]
    ELSE c

toLowerCase(label) == [i \in DOMAIN label |-> toLowerCaseChar(label[i])]

\* The switch of getResultDisplay.
getResultDisplay(label) ==
  LET l == toLowerCase(label)
  IN IF l = toLowerCase(Real)
       THEN [icon |-> "check mark", text |-> "Real",
             color |-> "text-green-400", bgColor |-> "bg-green-900/20",
             borderColor |-> "border-green-500/30"]
     ELSE IF l = toLowerCase(Fake)
       THEN [icon |-> "cross mark", text |-> "Fake",
             color |-> "text-red-400", bgColor |-> "bg-red-900/20",
             borderColor |-> "border-red-500/30"]
     ELSE IF l = toLowerCase(Suspicious)
       THEN [icon |-> "warning", text |-> "Suspicious",
             color |-> "text-yellow-400", bgColor |-> "bg-yellow-900/20",
             borderColor |-> "border-yellow-500/30"]
     ELSE [icon |-> "question mark", text |-> "Unknown",
           color |-> "text-gray-400", bgColor |-> "bg-gray-900/20",
           borderColor |-> "border-gray-500/30"]

\* The colour of the progress bar.
ProgressBarColor(label) ==
  LET l == toLowerCase(label)
  IN IF l = toLowerCase(Real) THEN "bg-green-500"
     ELSE IF l = toLowerCase(Fake) THEN "bg-red-500"
     ELSE "bg-yellow-500"

\* What ResultCard renders for a label: the display and the bar's colour.
ResultCard(label) ==
  [display |-> getResultDisplay(label), bar |-> ProgressBarColor(label)]

-----------------------------------------------------------------------------
\* The popup as the user drives it.

\* Where the popup runs: an extension popup with chrome.tabs, one without,
\* or a plain page; with or without navigator.mediaDevices.getUserMedia.
Envs ==
  {[isExtension |-> TRUE, tabs |-> TRUE, getUserMedia |-> TRUE],
   [isExtension |-> TRUE, tabs |-> FALSE, getUserMedia |-> TRUE],
   [isExtension |-> FALSE, tabs |-> FALSE, getUserMedia |-> TRUE],
   [isExtension |-> TRUE, tabs |-> TRUE, getUserMedia |-> FALSE]}

Init ==
  /\ env \in Envs
  /\ mounted = TRUE
  /\ isCameraActive = FALSE
  /\ cameraError = NoError
  /\ isRequestingCamera = FALSE
  /\ permissionStatus = "unknown"
  /\ streamRef = 0
  /\ srcObject = 0
  /\ liveStreams = {}
  /\ status = <<"Ready to start camera">>
  /\ isAnalyzing = FALSE
  /\ result = <<>>
  /\ attempts = [a \in Attempts |-> NewAttempt]
  /\ analyses = [n \in Analyses |-> NewAnalysis]
  /\ selectedFile = FALSE
  /\ uploads = [u \in Uploads |-> NewUpload]

\* WebcamPreview with the webcam callback of App.
NextCamera ==
  \/ \E a \in Attempts : StartCamera(a)
  \/ \E a \in Attempts, t \in TabsOutcomes : CheckTabsReturns(a, t)
  \/ \E a \in Attempts, m \in MessageOutcomes : CheckMessageReturns(a, m)
  \/ \E a \in Attempts, t \in TabsOutcomes : RequestTabsReturns(a, t)
  \/ \E a \in Attempts, m \in MessageOutcomes : RequestMessageReturns(a, m)
  \/ \E a \in Attempts : GetUserMediaResolves(a)
  \/ \E a \in Attempts, e \in GetUserMediaErrors : GetUserMediaRejects(a, e)
  \/ \E a \in Attempts : LoadedMetadata(a)
  \/ \E a \in Attempts : VideoError(a)
  \/ \E a \in Attempts : TimerFires(a)
  \/ \E a \in Attempts : PlayResolves(a)
  \/ \E a \in Attempts, e \in PlayErrors : PlayRejects(a, e)
  \/ StopCamera
  \/ Unmount
  \/ \E g \in BOOLEAN, e \in UpdateErrors : PermissionUpdate(g, e)
  \/ \E n \in Analyses : ScanFrame(n)
  \/ \E n \in Analyses, resp \in BackendResponses : AnalysisSettles(n, resp)

\* UploadForm with the upload callback of App.
NextUploadForm ==
  \/ SelectFile
  \/ ClearFile
  \/ \E u \in Uploads : VerifyMedia(u)
  \/ \E u \in Uploads, ok \in BOOLEAN : FileRead(u, ok)
  \/ \E u \in Uploads, resp \in BackendResponses :
       VerificationSettles(u, resp)

Next == NextCamera \/ NextUploadForm

Spec == Init /\ [][Next]_vars

\* WebcamPreview with its webcam callback alone, the upload form unused.
SpecCamera == Init /\ [][NextCamera]_vars

\* The timer of a metadata wait that was set up does fire.
FairSpec == SpecCamera /\ \A a \in Attempts : WF_vars(TimerFires(a))

-----------------------------------------------------------------------------
\* The controller's operations called directly in the states in which the
\* popup does not render their controls: stopCamera and the onAnalyze
\* callback while no camera is active and none is being requested (Idle,
\* Denied, an error displayed).  The upload form is left unused.

NoSession == mounted /\ ~isCameraActive /\ ~isRequestingCamera

StopCameraCall == NoSession /\ stopCamera

AnalyzeCall(n) == NoSession /\ handleWebcamAnalysis(n, FALSE)

NextOps ==
  \/ NextCamera
  \/ StopCameraCall
  \/ \E n \in Analyses : AnalyzeCall(n)

SpecOps == Init /\ [][NextOps]_vars

-----------------------------------------------------------------------------
\* The two callbacks of App with a backend that may answer anything: the
\* popup on a plain page, driven up to a running camera and a selected file,
\* then analysing and uploading.

Labels ==
  {Real, Fake, Suspicious,
   <<"R", "E", "A", "L">>, <<"r", "e", "a", "l">>, <<"f", "a", "k", "e">>,
   <<"S", "U", "S", "P", "I", "C", "I", "O", "U", "S">>,
   <<"U", "n", "s", "u", "r", "e">>, <<>>}

StatusCodes == {"200", "201", "404", "500"}
OkCodes == {"200", "201"}

\* The body's message: absent, empty, or a text.
Messages == {<<FALSE, "">>, <<TRUE, "">>, <<TRUE, "bad image">>}

\* image_info and media_info of the body: both absent, or both there.
Infos == {<<NoInfo, NoInfo>>, <<<<"JPEG">>, <<"image">>>>}

Response(c, s, l, cf, m, i) ==
  [net |-> TRUE, ok |-> c \in OkCodes, code |-> c, success |-> s,
   label |-> l, confidence |-> cf, timestamp |-> "T",
   hasMessage |-> m[1], message |-> m[2],
   image_info |-> i[1], media_info |-> i[2]]

\* Every status with a body that claims success or not, with and without a
\* message; for the 2xx statuses every label, two confidences, with and
\* without the infos; and a fetch that rejects.
ApiResponses ==
  {Response(c, s, Real, 87, m, <<NoInfo, NoInfo>>) :
     c \in StatusCodes, s \in BOOLEAN, m \in Messages}
  \cup
  {Response(c, TRUE, l, cf, <<FALSE, "">>, i) :
     c \in OkCodes, l \in Labels, cf \in {0, 87}, i \in Infos}
  \cup
  {[Response("200", TRUE, Real, 87, <<FALSE, "">>, <<NoInfo, NoInfo>>)
      EXCEPT !.net = FALSE]}

InitApi ==
  /\ Init
  /\ env = [isExtension |-> FALSE, tabs |-> FALSE, getUserMedia |-> TRUE]

NextApi ==
  \/ \E a \in Attempts : StartCamera(a)
  \/ \E a \in Attempts : GetUserMediaResolves(a)
  \/ \E a \in Attempts : LoadedMetadata(a)
  \/ \E a \in Attempts : PlayResolves(a)
  \/ \E n \in Analyses : ScanFrame(n)
  \/ \E n \in Analyses, resp \in ApiResponses : AnalysisSettles(n, resp)
  \/ SelectFile
  \/ \E u \in Uploads : VerifyMedia(u)
  \/ \E u \in Uploads, ok \in BOOLEAN : FileRead(u, ok)
  \/ \E u \in Uploads, resp \in ApiResponses : VerificationSettles(u, resp)

SpecApi == InitApi /\ [][NextApi]_vars

-----------------------------------------------------------------------------
\* Properties.

\* Invocation a reaches the end of startCamera in this step.
Completes(a) == attempts[a].pc # "done" /\ attempts'[a].pc = "done"

\* ... through its catch block.
Fails(a) == Completes(a) /\ attempts'[a].outcome = "failed"

\* C1: at most one acquired stream has un-stopped tracks, and an active
\* session holds a stream: a stream acquired by an attempt that failed
\* later is no longer live when another attempt acquires one.
C1_AtMostOneLiveStream ==
  /\ Cardinality(liveStreams) <= 1
  /\ (mounted /\ isCameraActive) => streamRef \in liveStreams

\* C2: right after stopCamera, right after teardown, and at any time after
\* teardown, no stream the controller acquired has running tracks.
C2_AllStreamsReleased ==
  /\ [][(StopCamera \/ Unmount) => liveStreams' = {}]_vars
  /\ [](~mounted => liveStreams = {})

\* C3: a startCamera attempt that fails ends with isRequestingCamera false,
\* isCameraActive false, permissionStatus 'unknown' or 'denied', and the
\* Start Camera control available again.
C3_FailureEndsIdleOrDenied ==
  [][\A a \in Attempts :
       (mounted /\ Fails(a)) =>
         /\ ~isRequestingCamera'
         /\ ~isCameraActive'
         /\ permissionStatus' \in {"unknown", "denied"}
         /\ StartCameraControl']_vars

\* What the permission request of an invocation came to: in the extension
\* the relay's word (the status query or the permission request); on a plain
\* page getUserMedia's: accepted, or rejected for lack of permission.
PermissionOutcome(rec) ==
  IF env.isExtension
    THEN IF rec.hasPermission = "yes" \/ rec.permissionGranted = "yes"
           THEN "granted"
         ELSE IF rec.permissionGranted = "no" THEN "denied"
         ELSE "none"
    ELSE IF rec.gum = "resolved" THEN "granted"
         ELSE IF rec.gum = "rejected" /\ rec.error.name = "NotAllowedError"
           THEN "denied"
         ELSE "none"

\* C4: when a startCamera attempt has completed, permissionStatus is
\* 'granted' if its permission request was granted and 'denied' if not.
C4_PermissionStatusReflectsOutcome ==
  [][\A a \in Attempts :
       (mounted /\ Completes(a) /\ PermissionOutcome(attempts'[a]) # "none")
         => permissionStatus' = PermissionOutcome(attempts'[a])]_vars

\* C5: stopCamera called with no stream held and isCameraActive false leaves
\* isCameraActive, cameraError, permissionStatus and the status line as
\* they were.
C5_StopWithoutSessionChangesNothing ==
  [][(StopCameraCall /\ streamRef = 0 /\ ~isCameraActive) =>
       UNCHANGED <<isCameraActive, cameraError, permissionStatus, status>>]_vars

\* C6: stopCamera in state Active stops the tracks of the held stream,
\* clears the stream reference, detaches the video element's source and
\* leaves isCameraActive false, cameraError null and permissionStatus
\* 'unknown', whether or not an analysis is in flight.
C6_StopFromActiveGoesIdle ==
  [][(StopCamera /\ isCameraActive /\ streamRef # 0) =>
       /\ streamRef \notin liveStreams'
       /\ streamRef' = 0
       /\ srcObject' = 0
       /\ ~isCameraActive'
       /\ cameraError' = NoError
       /\ permissionStatus' = "unknown"]_vars

\* The camera was stopped from Active while an analysis was in flight.
C6_Witness ==
  /\ mounted /\ isAnalyzing
  /\ ~isCameraActive /\ streamRef = 0 /\ srcObject = 0 /\ liveStreams = {}
  /\ permissionStatus = "unknown"
  /\ \E a \in Attempts : attempts[a].outcome = "active"
  /\ \E n \in Analyses : analyses[n].pc = "fetch"

\* C7: with startCamera triggered only by the Start Camera control, at most
\* one startCamera invocation is in flight.
C7_AtMostOneAttemptInFlight ==
  Cardinality({a \in Attempts : InFlight(a)}) <= 1

\* A retry is in flight after an earlier attempt has completed.
C7_Witness ==
  \E a, b \in Attempts : attempts[a].pc = "done" /\ InFlight(b)

\* The order of the steps of one invocation.
StepRank(step) ==
  CASE step = "check" -> 1
    [] step = "query" -> 2
    [] step = "request" -> 3
    [] step = "requestMessage" -> 4
    [] step = "getUserMedia" -> 5
    [] step = "bind" -> 6
    [] step = "wait" -> 7
    [] step = "play" -> 8

InOrder(trace) ==
  \A i \in 1..(Len(trace) - 1) : StepRank(trace[i]) < StepRank(trace[i + 1])

Took(rec, step) == \E i \in 1..Len(rec.trace) : rec.trace[i] = step

\* C8: in the extension, the steps of an attempt are taken in the order
\* check, request, acquisition, bind, wait, play; getUserMedia is called only
\* after the status query returned granted or the permission request
\* returned success; the permission request is made only when the status
\* query did not return granted.
C8_RelayBeforeAcquisition ==
  env.isExtension =>
    \A a \in Attempts :
      LET rec == attempts[a]
      IN /\ InOrder(rec.trace)
         /\ Took(rec, "getUserMedia") =>
              /\ Took(rec, "check")
              /\ rec.hasPermission = "yes" \/ rec.permissionGranted = "yes"
         /\ (Took(rec, "request") \/ Took(rec, "requestMessage")) =>
              rec.hasPermission = "no"
         /\ Took(rec, "requestMessage") => Took(rec, "request")

\* An attempt whose status query was not granted, whose permission request
\* succeeded, and which went on to play.
C8_Witness ==
  /\ env.isExtension
  /\ \E a \in Attempts :
       /\ attempts[a].hasPermission = "no"
       /\ attempts[a].permissionGranted = "yes"
       /\ Took(attempts[a], "query")
       /\ Took(attempts[a], "requestMessage")
       /\ Took(attempts[a], "play")

\* C9: the metadata wait always ends; the timer firing during the wait
\* fails the attempt with 'Video loading timeout' through the catch block;
\* the timer firing after the wait is over changes nothing but the timer.
C9_MetadataWaitEnds ==
  /\ \A a \in Attempts :
       (attempts[a].pc = "wait") ~> (attempts[a].pc # "wait")
  /\ [](\A a \in Attempts :
          attempts[a].pc = "wait" => attempts[a].timer = "armed")
  /\ [][\A a \in Attempts :
          TimerFires(a) =>
            IF attempts[a].pc = "wait"
              THEN /\ attempts'[a].pc = "done"
                   /\ attempts'[a].outcome = "failed"
                   /\ attempts'[a].error = NewError(VideoTimeoutMessage)
                   /\ mounted => /\ status' = <<VideoTimeoutMessage>>
                                 /\ cameraError' = <<VideoTimeoutMessage>>
                                 /\ ~isRequestingCamera'
              ELSE UNCHANGED <<env, mounted, controllerVars, streamVars,
                               appVars>>]_vars

\* An attempt that was failed by its timer while it waited for metadata.
C9_Witness ==
  /\ mounted
  /\ status = <<VideoTimeoutMessage>>
  /\ \E a \in Attempts :
       /\ attempts[a].timer = "fired"
       /\ Took(attempts[a], "wait")
       /\ attempts[a].outcome = "failed"
       /\ attempts[a].error = NewError(VideoTimeoutMessage)

\* C10 as stated: a frame is captured only in Active, so a call made in Idle
\* captures nothing.
C10_CaptureOnlyInActive ==
  \A n \in Analyses :
    analyses[n].captured => (analyses[n].active /\ analyses[n].streamLive)

\* C10 amended: a capture started from the Scan Frame control happens only
\* in Active, with a live stream on the video element; a call that returns
\* at the guard captures nothing.
C10_ControlCaptureOnlyInActive ==
  \A n \in Analyses :
    /\ (analyses[n].captured /\ analyses[n].viaControl) =>
         (analyses[n].active /\ analyses[n].streamLive)
    /\ analyses[n].outcome = "rejected" => ~analyses[n].captured

\* A frame captured from the Scan Frame control.
C10_Witness ==
  \E n \in Analyses :
    analyses[n].captured /\ analyses[n].viaControl /\ analyses[n].active

\* The App callbacks that are past their guard and have not reached the end
\* of their finally block.
AnalysesInFlight == {n \in Analyses : analyses[n].pc = "fetch"}
UploadsInFlight == {u \in Uploads : uploads[u].pc \in {"read", "fetch"}}

\* C11: when the call of an analysis or of an upload settles, with a result
\* or with a failure (the file read included), isAnalyzing is false afterwards
\* and the camera is as it was, so an analysis in Active is back in Active;
\* isAnalyzing is never true with no analysis or upload still running.
C11_AnalysisReturnsToActive ==
  /\ [][\A resp \in BackendResponses :
          /\ \A n \in Analyses :
               (mounted /\ AnalysisSettles(n, resp)) =>
                 ~isAnalyzing' /\ isCameraActive' = isCameraActive
          /\ \A u \in Uploads :
               (mounted /\ (VerificationSettles(u, resp) \/ FileRead(u, FALSE)))
                 => ~isAnalyzing' /\ isCameraActive' = isCameraActive]_vars
  /\ [](isAnalyzing => AnalysesInFlight \cup UploadsInFlight # {})

\* An analysis started in Active has failed and an upload has failed; the
\* camera is still active and nothing is being analysed.
C11_Witness ==
  /\ mounted /\ isCameraActive /\ ~isAnalyzing
  /\ \E n \in Analyses :
       /\ analyses[n].active /\ analyses[n].viaControl
       /\ analyses[n].outcome = "failed"
  /\ \E u \in Uploads : uploads[u].outcome = "failed"

\* The error classes that are to surface the Open Permission Page action:
\* permission denied (NotAllowedError, a refusal of the relay) and security
\* blocked (SecurityError).
PermissionClass(e) ==
  \/ e.name \in {"NotAllowedError", "SecurityError"}
  \/ e = NewError(RelayFailedMessage)

\* C12: in the extension, a startCamera failure of the permission-denied or
\* security-blocked class ends in a state that offers Open Permission Page;
\* a failure of another class does not bring the control up: if it is there
\* afterwards, permissionStatus was 'denied' before.
C12_PermissionErrorsOfferPage ==
  [][\A a \in Attempts :
       (mounted /\ env.isExtension /\ Fails(a)) =>
         IF PermissionClass(attempts'[a].error)
           THEN OpenPermissionPageControl'
           ELSE OpenPermissionPageControl' => permissionStatus = "denied"]_vars

\* C13: a cameraPermissionUpdate in the extension sets permissionStatus to
\* 'granted' if granted is true and to 'denied' otherwise; an update that
\* takes it from 'denied' to 'granted' clears cameraError and sets the
\* status line to the retry prompt; a granted update in any other permission
\* state leaves cameraError as it was.
C13_PermissionUpdateSetsStatus ==
  [][\A granted \in BOOLEAN, error \in UpdateErrors :
       PermissionUpdate(granted, error) =>
         /\ permissionStatus' = IF granted THEN "granted" ELSE "denied"
         /\ (granted /\ permissionStatus = "denied") =>
              /\ cameraError' = NoError
              /\ status' = <<PermissionGrantedPrompt>>
         /\ (granted /\ permissionStatus # "denied") =>
              cameraError' = cameraError]_vars

\* After an attempt failed on a missing camera, an update has taken
\* permissionStatus from 'denied' to 'granted': the error is cleared and the
\* status line prompts to retry.
C13_Witness ==
  /\ mounted /\ env.isExtension
  /\ permissionStatus = "granted"
  /\ cameraError = NoError
  /\ status = <<PermissionGrantedPrompt>>
  /\ \E a \in Attempts :
       attempts[a].outcome = "failed"
         /\ attempts[a].error.name = "NotFoundError"

\* How often an invocation took a step.
Count(trace, step) == Cardinality({i \in 1..Len(trace) : trace[i] = step})

\* C14: one startCamera invocation sends at most one status query, at most
\* one permission request and calls getUserMedia at most once; one analysis
\* and one upload invocation make at most one HTTP request each, whatever
\* the outcome; an invocation starts only with a click on its control.
C14_NothingRetried ==
  /\ [](\A a \in Attempts :
          /\ Count(attempts[a].trace, "query") <= 1
          /\ Count(attempts[a].trace, "requestMessage") <= 1
          /\ Count(attempts[a].trace, "getUserMedia") <= 1)
  /\ [](\A n \in Analyses : analyses[n].requests <= 1)
  /\ [](\A u \in Uploads : uploads[u].requests <= 1)
  /\ [][/\ \A a \in Attempts :
            (attempts[a].pc = "new" /\ attempts'[a].pc # "new")
              => StartCamera(a)
        /\ \A n \in Analyses :
            (analyses[n].pc = "new" /\ analyses'[n].pc # "new")
              => ScanFrame(n)
        /\ \A u \in Uploads :
            (uploads[u].pc = "new" /\ uploads'[u].pc # "new")
              => VerifyMedia(u)]_vars

\* An attempt that queried, requested and called getUserMedia has failed,
\* an analysis has failed and an upload has failed after its request, and
\* nothing is running: none of them was tried again.
C14_Witness ==
  /\ mounted /\ ~isRequestingCamera /\ ~isAnalyzing
  /\ \E a \in Attempts :
       /\ attempts[a].outcome = "failed"
       /\ Took(attempts[a], "query")
       /\ Took(attempts[a], "requestMessage")
       /\ Took(attempts[a], "getUserMedia")
  /\ \E n \in Analyses :
       analyses[n].outcome = "failed" /\ analyses[n].requests = 1
  /\ \E u \in Uploads :
       uploads[u].outcome = "failed" /\ uploads[u].requests = 1
  /\ \A a \in Attempts : ~InFlight(a)
  /\ AnalysesInFlight \cup UploadsInFlight = {}

\* The status line carries text.
Contains(line, text) == \E i \in 1..Len(line) : line[i] = text

\* message of the body, or the default when it is absent or empty.
BodyMessage(resp, default) ==
  IF resp.hasMessage /\ resp.message # "" THEN resp.message ELSE default

\* C15: for every response fetch delivers, a non-2xx status makes
\* analyzeImage and verifyMedia fail with a message that carries the status
\* code, whatever the body says; a 2xx status with success false makes them
\* fail with the body's message, or with 'Analysis failed' / 'Verification
\* failed' when it has none or an empty one; in both cases the callback gets
\* no result record: it reports the failure and leaves the result alone.
C15_BadResponsesFail ==
  [][\A resp \in ApiResponses :
       /\ \A n \in Analyses :
            (AnalysisSettles(n, resp) /\ resp.net
               /\ ~(resp.ok /\ resp.success)) =>
              /\ analyses'[n].outcome = "failed"
              /\ result' = result
              /\ IF ~resp.ok
                   THEN Contains(status', resp.code)
                   ELSE status' = <<"Analysis failed: ",
                                    BodyMessage(resp, "Analysis failed")>>
       /\ \A u \in Uploads :
            (VerificationSettles(u, resp) /\ resp.net
               /\ ~(resp.ok /\ resp.success)) =>
              /\ uploads'[u].outcome = "failed"
              /\ result' = result
              /\ IF ~resp.ok
                   THEN Contains(status', resp.code)
                   ELSE status' = <<"Upload failed: ",
                                    BodyMessage(resp, "Verification failed")>>
  ]_vars

\* With a result displayed, an upload has failed on a body that has
\* success false and no message.
C15_Witness ==
  /\ status = <<"Upload failed: ", "Verification failed">>
  /\ result # <<>>
  /\ \E u \in Uploads : uploads[u].outcome = "failed"

\* C16: for every 2xx response whose body has success true, the result set
\* by the callback carries the label, confidence and timestamp of the body;
\* the one of analyzeImage has image_info and no media_info, the one of
\* verifyMedia has media_info and no image_info.
C16_SuccessIsDisplayed ==
  [][\A resp \in ApiResponses :
       (resp.net /\ resp.ok /\ resp.success) =>
         /\ \A n \in Analyses :
              AnalysisSettles(n, resp) =>
                result' = <<[success |-> TRUE, label |-> resp.label,
                             confidence |-> resp.confidence,
                             timestamp |-> resp.timestamp,
                             image_info |-> resp.image_info]>>
         /\ \A u \in Uploads :
              VerificationSettles(u, resp) =>
                result' = <<[success |-> TRUE, label |-> resp.label,
                             confidence |-> resp.confidence,
                             timestamp |-> resp.timestamp,
                             media_info |-> resp.media_info]>>]_vars

\* The result of an upload is displayed: label 'Fake', confidence 87, the
\* media info of the body and not its image info.
C16_Witness ==
  /\ result = <<[success |-> TRUE, label |-> Fake, confidence |-> 87,
                 timestamp |-> "T", media_info |-> <<"image">>]>>
  /\ status = <<"Analysis complete">>
  /\ \E u \in Uploads : uploads[u].outcome = "ok"

\* Two characters are the same letter, in whatever casing.
SameLetter(c, d) ==
  \/ c = d
  \/ \E i \in DOMAIN UpperCase : {c, d} = {UpperCase[i], LowerCase[i]}

\* Two labels differ at most in letter casing.
SameUpToCase(k, l) ==
  /\ Len(k) = Len(l)
  /\ \A i \in 1..Len(k) : SameLetter(k[i], l[i])

\* The label is Real, Fake or Suspicious in some casing.
Recognised(l) == \E k \in {Real, Fake, Suspicious} : SameUpToCase(k, l)

\* C17: whatever label the displayed result has, a label that differs from
\* it only in letter casing gets the same treatment (display attributes and
\* bar colour), and a label that differs otherwise gets another treatment
\* whenever one of the two is Real, Fake or Suspicious.
C17_TreatmentByLowerCasedLabel ==
  result # <<>> =>
    LET l == result[1].label
    IN \A k \in Labels :
         IF SameUpToCase(k, l)
           THEN ResultCard(k) = ResultCard(l)
           ELSE (Recognised(k) \/ Recognised(l)) =>
                  ResultCard(k) # ResultCard(l)

\* A result labelled 'REAL' is displayed, with the treatment of 'Real'.
C17_Witness ==
  /\ result # <<>>
  /\ result[1].label = <<"R", "E", "A", "L">>
  /\ ResultCard(result[1].label).display.text = "Real"

\* C18: permissionStatus is 'requesting' only while a startCamera attempt
\* is in flight (isRequestingCamera true).
C18_RequestingOnlyInFlight ==
  (mounted /\ permissionStatus = "requesting") => isRequestingCamera

\* C19: while the camera is active, permissionStatus is 'granted', the
\* stream held has running tracks and no camera error is displayed.
C19_ActiveMeansGranted ==
  (mounted /\ isCameraActive) =>
    /\ permissionStatus = "granted"
    /\ streamRef # 0 /\ streamRef \in liveStreams
    /\ cameraError = NoError

\* C20: at most one App callback is between its guard and the end of its
\* finally block, so at most one analyzeImage or verifyMedia request is in
\* flight; while one is, isAnalyzing is true and neither Scan Frame nor
\* Verify Media can be clicked.
C20_OneRequestInFlight ==
  /\ Cardinality(AnalysesInFlight) + Cardinality(UploadsInFlight) <= 1
  /\ (mounted /\ AnalysesInFlight \cup UploadsInFlight # {}) =>
       /\ isAnalyzing
       /\ ~ScanFrameControl
       /\ ~UploadControl

\* After an analysis that has settled, an upload request is in flight with
\* the camera active: Scan Frame is rendered and disabled.
C20_Witness ==
  /\ mounted /\ isCameraActive /\ selectedFile
  /\ \E u \in Uploads : uploads[u].pc = "fetch"
  /\ \E n \in Analyses : analyses[n].pc = "done" /\ analyses[n].captured

\* C21: while the popup is open, the displayed result changes only in the
\* step in which analyzeImage or verifyMedia returns, and it becomes the value
\* returned; a call that fails (HTTP error, success:false, file read error)
\* leaves the displayed result as it was and sets the status message to
\* 'Analysis failed: ' or 'Upload failed: ' followed by the error's message.
C21_ResultChangesOnlySuccess ==
  [][/\ (mounted /\ mounted' /\ result' # result) =>
          \E resp \in BackendResponses :
            \/ \E n \in Analyses :
                 /\ AnalysisSettles(n, resp)
                 /\ ~analyzeImage(resp).threw
                 /\ result' = analyzeImage(resp).value
            \/ \E u \in Uploads :
                 /\ VerificationSettles(u, resp)
                 /\ ~verifyMedia(resp).threw
                 /\ result' = verifyMedia(resp).value
     /\ mounted =>
          /\ \A n \in Analyses : analyses[n].pc = "fetch" =>
               \A resp \in BackendResponses :
                 (analyzeImage(resp).threw /\ AnalysisSettles(n, resp)) =>
                   /\ result' = result
                   /\ status' =
                        <<"Analysis failed: ">> \o analyzeImage(resp).message
          /\ \A u \in Uploads : uploads[u].pc = "fetch" =>
               \A resp \in BackendResponses :
                 (verifyMedia(resp).threw /\ VerificationSettles(u, resp)) =>
                   /\ result' = result
                   /\ status' =
                        <<"Upload failed: ">> \o verifyMedia(resp).message
          /\ \A u \in Uploads : FileRead(u, FALSE) =>
               /\ result' = result
               /\ status' = <<"Upload failed: ", "Failed to read file">>]_vars

\* A result of an analysis is displayed, and the upload made after it has
\* failed: the status line tells the failure, the result is still there.
C21_Witness ==
  /\ mounted /\ result # <<>> /\ ~isAnalyzing
  /\ status[1] = "Upload failed: "
  /\ \E n \in Analyses : analyses[n].outcome = "ok"
  /\ \E u \in Uploads : uploads[u].outcome = "failed"

\* A step of one of App's two callbacks: an analysis or an upload starts,
\* reads its file, or its call settles.
AppCallbackStep ==
  \/ \E n \in Analyses : ScanFrame(n)
  \/ \E n \in Analyses, resp \in BackendResponses : AnalysisSettles(n, resp)
  \/ \E u \in Uploads : VerifyMedia(u)
  \/ \E u \in Uploads, ok \in BOOLEAN : FileRead(u, ok)
  \/ \E u \in Uploads, resp \in BackendResponses : VerificationSettles(u, resp)

\* The capture session: what WebcamPreview holds of the camera.
CaptureSession ==
  <<isCameraActive, permissionStatus, cameraError, streamRef, srcObject,
    liveStreams>>

\* C22: a step in which an analysis or a file upload starts, completes or
\* fails changes none of isCameraActive, permissionStatus, cameraError, the
\* stream held, the video source and the streams with running tracks; so a
\* camera that was stopped is still stopped after an analysis settles.
C22_CallbacksLeaveSessionAlone ==
  [][AppCallbackStep =>
       /\ UNCHANGED CaptureSession
       /\ ~isCameraActive => ~isCameraActive']_vars

\* An analysis started from Scan Frame while the camera was active has
\* settled after Stop Camera: the status line is the analysis's, the camera
\* is as stopCamera left it.
C22_Witness ==
  /\ mounted /\ ~isCameraActive /\ ~isAnalyzing
  /\ streamRef = 0 /\ srcObject = 0 /\ permissionStatus = "unknown"
  /\ cameraError = NoError
  /\ status[1] \in {"Analysis complete", "Analysis failed: "}
  /\ \E n \in Analyses :
       /\ analyses[n].active /\ analyses[n].viaControl
       /\ analyses[n].pc = "done"

\* The controller state stopCamera writes.
ControllerState ==
  <<streamRef, srcObject, isCameraActive, cameraError, permissionStatus,
    status>>

\* A call of stopCamera: the Stop Camera button, or a direct call.
StopCameraStep == StopCamera \/ StopCameraCall

\* The controller state of a stopped camera.
Stopped ==
  /\ streamRef = 0 /\ srcObject = 0
  /\ ~isCameraActive /\ cameraError = NoError
  /\ permissionStatus = "unknown"
  /\ status = <<"Camera stopped">>

\* C23: stopCamera applied twice gives the controller state (stream
\* reference, video source, isCameraActive, cameraError, permissionStatus,
\* status message) that applying it once gives: in every reachable state the
\* four state updates written twice are the four written once; every call
\* of stopCamera ends with the controller state of a stopped camera; and a
\* call made in that state changes nothing of the controller state.
C23_StopCameraIdempotent ==
  /\ [](stopCamera_state(stopCamera_state(Cur)) = stopCamera_state(Cur))
  /\ [][StopCameraStep => Stopped']_vars
  /\ [][(StopCameraStep /\ Stopped) => UNCHANGED ControllerState]_vars

\* The camera was active and has been stopped: stopCamera can be called
\* once more, on the state the first call left.
C23_Witness ==
  /\ NoSession /\ Stopped
  /\ \E a \in Attempts : attempts[a].outcome = "active"

=============================================================================
